---- MODULE Spec2Model ----
(***************************************************************************)
(* Model of the interactive Google Ads query tool                          *)
(* (src/googleAdsQueryTool.ts): interactive setup of the credential        *)
(* bundle, the OAuth authorization-code capture listener on port 8080,     *)
(* the token exchange with operator-approved retry, and the main menu;     *)
(* of the 90-day click_view collector (src/clickViewFeb2025.ts): the list  *)
(* of dates and the collection loop; and of the menu of the archived       *)
(* playground (src/archive/googleAdsPlayground.ts).                        *)
(*                                                                         *)
(* One action is one turn of the Node event loop: the continuation of the  *)
(* main coroutine from one await to the next, one inbound HTTP request,    *)
(* or one timer callback.                                                  *)
(***************************************************************************)
EXTENDS Integers, Sequences, FiniteSets, TLC

\* ------------------------------------------------------------------ bounds
MaxAttempts == 2    \* invocations of generateAuthUrl explored
MaxRequests == 2    \* inbound HTTP requests explored

\* -------------------------------------------------------------- constants
port == 8080

\* ----------------------------------------------------------------- values
Null == "<null>"            \* JavaScript null / undefined

Truthy(s) == s # Null /\ s # ""

EnvValues    == {"", "v"}               \* process.env.X || ""
Answers      == {"", "v"}               \* free-text answers typed by the operator
YesNoAnswers == {"yes", "Y", "no"}      \* answers typed at a yes/no prompt
Codes        == {"", "A", "B"}          \* values of a query parameter
RefreshTokens == {Null, "", "R1"}       \* tokens.refresh_token in the exchange response
MenuChoices  == {"1", "2", "3", "4", "5", "6", "7", ""}

\* String.prototype.toLowerCase on the answers above
toLowerCase(s) ==
    CASE s = "Y"   -> "y"
      [] s = "YES" -> "yes"
      [] OTHER     -> s

\* mutant: every answer counts as a yes
IsYes_Always(answer) == TRUE

\* `answer === "yes" || answer === "y"`
IsYes(answer) == answer = "yes" \/ answer = "y"

\* parsed query strings of the inbound requests explored: lists of
\* (name, value) pairs, with the code absent, empty, present, repeated or
\* after another parameter
Queries == {<<>>, <<<<"state", "A">>>>, <<<<"state", "A">>, <<"code", "B">>>>}
              \cup {<<<<"code", v>>>> : v \in Codes}
              \cup {<<<<"code", v>>, <<"code", "B">>>> : v \in Codes}

\* URLSearchParams.get: the first value stored under name, or null
searchParamsGet(q, name) ==
    IF \E i \in 1..Len(q) : q[i][1] = name
    THEN q[CHOOSE i \in 1..Len(q) :
               /\ q[i][1] = name
               /\ \A j \in 1..(i - 1) : q[j][1] # name][2]
    ELSE Null

VARIABLES
    config,        \* the global credential bundle
    pc,            \* where the main coroutine is suspended
    proc,          \* "running", "exited" (process.exit) or "crashed" (uncaught error)
    listeners,     \* one record per invocation of generateAuthUrl: its http server
    promises,      \* authCodePromise of each invocation: Null or the code it resolved with
    exchanges,     \* calls of oauth2Client.getToken: <<attempt, code>>
    lastResponse,  \* the response to the latest inbound request
    nreq,          \* number of inbound requests handled
    envFile,       \* contents of the .env file written by setup (<<>>: not written)
    nwrites,       \* number of times the .env file was written
    op,            \* the API operation in flight, or Null
    lastTokens,    \* outcome of the latest getToken call
    retry,         \* the lower-cased answer to the latest retry prompt, or Null
    apiFailed,     \* the latest API operation threw and its error was printed
    choice         \* `choice` of the running iteration of the menu loop, or Null

vars == <<config, pc, proc, listeners, promises, exchanges, lastResponse,
          nreq, envFile, nwrites, op, lastTokens, retry, apiFailed, choice>>

\* The 90-day collector (src/clickViewFeb2025.ts) and the menu of the
\* archived playground (src/archive/googleAdsPlayground.ts) are programs of
\* their own; each has its own state and its own specification.
VARIABLES
    collector,     \* the state of the collector, or "off": a record of
                   \*   today:        the calendar day of the clock when it starts
                   \*   rollover:     the loop index at which the clock passed midnight
                   \*   dates:        last90DaysDates
                   \*   clicks:       rows the account holds for the i-th date
                   \*   failing:      positions of the dates whose query throws
                   \*   fs:           the output directory and the files in it
                   \*   cpc:          where main() is suspended
                   \*   idx:          position of the loop in last90DaysDates
                   \*   totalResults: the running total
                   \*   queries:      the dates customer.query was called with
                   \*   saves:        the dates saveResultsToFile was called with
    playground     \* the state of the playground's menu, or "off": a record of
                   \*   stack:   call sites of the suspended menu invocations
                   \*   apc:     where the running menu invocation is
                   \*   achoice: the latest input at the menu prompt

allVars == <<vars, collector, playground>>

\* the collector is not running
CollectorOff == collector = "off"

\* the playground is not running
PlaygroundOff == playground = "off"

Fields == {"developer_token", "client_id", "client_secret",
           "refresh_token", "customer_id", "login_customer_id"}

requiredFields == <<"developer_token", "client_id", "client_secret">>

\* position of the prompt for a required field
PromptOf(field) ==
    CASE field = "developer_token" -> "q_developer_token"
      [] field = "client_id"       -> "q_client_id"
      [] field = "client_secret"   -> "q_client_secret"

\* the attempt (invocation of generateAuthUrl) that is running
attempt == Len(listeners)

Bound(i) == listeners[i].state = "listening"
PortInUse == \E i \in 1..Len(listeners) : Bound(i)

\* ------------------------------------------------------------------ setup
\* the characters of a field name, one string per character
Chars(field) ==
    CASE field = "developer_token" ->
           <<"d","e","v","e","l","o","p","e","r","_","t","o","k","e","n">>
      [] field = "client_id" ->
           <<"c","l","i","e","n","t","_","i","d">>
      [] field = "client_secret" ->
           <<"c","l","i","e","n","t","_","s","e","c","r","e","t">>
      [] field = "refresh_token" ->
           <<"r","e","f","r","e","s","h","_","t","o","k","e","n">>
      [] field = "customer_id" ->
           <<"c","u","s","t","o","m","e","r","_","i","d">>
      [] field = "login_customer_id" ->
           <<"l","o","g","i","n","_","c","u","s","t","o","m","e","r","_","i","d">>

\* the upper-case form of one character: letters change, "_" does not
upperChar(c) ==
    CASE c = "a" -> "A" [] c = "b" -> "B" [] c = "c" -> "C" [] c = "d" -> "D"
      [] c = "e" -> "E" [] c = "f" -> "F" [] c = "g" -> "G" [] c = "h" -> "H"
      [] c = "i" -> "I" [] c = "j" -> "J" [] c = "k" -> "K" [] c = "l" -> "L"
      [] c = "m" -> "M" [] c = "n" -> "N" [] c = "o" -> "O" [] c = "p" -> "P"
      [] c = "q" -> "Q" [] c = "r" -> "R" [] c = "s" -> "S" [] c = "t" -> "T"
      [] c = "u" -> "U" [] c = "v" -> "V" [] c = "w" -> "W" [] c = "x" -> "X"
      [] c = "y" -> "Y" [] c = "z" -> "Z" [] OTHER -> c

\* the string made of the characters cs
RECURSIVE Join(_)
Join(cs) == IF cs = <<>> THEN "" ELSE Head(cs) \o Join(Tail(cs))

\* mutant: the key is written in the case of the field name
toUpperCase_Identity(field) == Join(Chars(field))

\* String.prototype.toUpperCase on a field name
toUpperCase(field) == Join([i \in 1..Len(Chars(field)) |-> upperChar(Chars(field)[i])])

\* `GOOGLE_ADS_${key.toUpperCase()}`: the key a field is saved under
envKeyWritten(field) == "GOOGLE_ADS_" \o toUpperCase(field)

\* the key a field is loaded from when the program starts
envKeyRead(field) ==
    CASE field = "developer_token"   -> "GOOGLE_ADS_DEVELOPER_TOKEN"
      [] field = "client_id"         -> "GOOGLE_ADS_CLIENT_ID"
      [] field = "client_secret"     -> "GOOGLE_ADS_CLIENT_SECRET"
      [] field = "refresh_token"     -> "GOOGLE_ADS_REFRESH_TOKEN"
      [] field = "customer_id"       -> "GOOGLE_ADS_CUSTOMER_ID"
      [] field = "login_customer_id" -> "GOOGLE_ADS_LOGIN_CUSTOMER_ID"

EnvKeys == {envKeyRead(f) : f \in Fields}

\* Object.entries(config) mapped to the keys the entries are saved under
savedKeys == [f \in Fields |-> envKeyWritten(f)]

\* the key=value lines written to .env, as a map from key to value
envContent(cfg) ==
    [k \in {savedKeys[f] : f \in Fields} |->
        cfg[CHOOSE f \in Fields : savedKeys[f] = k]]

\* the credential bundle of a run that starts with the variables of file
\* in its environment: `process.env.KEY || ""` for each field
loadConfig(file) ==
    [f \in Fields |->
        IF envKeyRead(f) \in DOMAIN file /\ Truthy(file[envKeyRead(f)])
        THEN file[envKeyRead(f)]
        ELSE ""]

\* mutant: every field is asked for, whatever it holds
isMissing_Always(value) == TRUE

\* `!config[field]`: the field holds no value
isMissing(value) == ~Truthy(value)

\* promptForMissingConfig from a given stage on: the prompt it stops at, or
\* "save" when it reaches the write of the .env file without prompting.
\* Stages 1..3 are the required fields, 4 the refresh token, 5 the customer
\* id, 6 the login customer id.
RECURSIVE SetupStop(_, _)
SetupStop(cfg, stage) ==
    IF stage <= 3 THEN
        IF isMissing(cfg[requiredFields[stage]])
        THEN PromptOf(requiredFields[stage])
        ELSE SetupStop(cfg, stage + 1)
    ELSE IF stage = 4 THEN
        IF isMissing(cfg.refresh_token) THEN "q_generate" ELSE SetupStop(cfg, 5)
    ELSE IF stage = 5 THEN
        IF isMissing(cfg.customer_id) THEN "q_customer_id" ELSE SetupStop(cfg, 6)
    ELSE IF stage = 6 THEN
        IF isMissing(cfg.login_customer_id) THEN "q_use_login" ELSE "save"
    ELSE "save"

\* mutant: the configuration is saved at every prompt, not only at the end
Resume_SavesAtEveryPrompt(cfg, stage, writeOk) ==
    LET stop == SetupStop(cfg, stage) IN
    /\ config' = cfg
    /\ IF stop # "save" THEN
            /\ pc' = stop
            /\ envFile' = envContent(cfg)
            /\ nwrites' = nwrites + 1
            /\ UNCHANGED proc
       ELSE IF writeOk THEN
            /\ envFile' = envContent(cfg)
            /\ nwrites' = nwrites + 1
            /\ pc' = "q_menu"
            /\ UNCHANGED proc
       ELSE
            /\ pc' = "done"
            /\ proc' = "exited"
            /\ UNCHANGED <<envFile, nwrites>>

\* the main coroutine continues promptForMissingConfig from stage with
\* configuration cfg, up to its next await; writeOk: fs.writeFileSync succeeds
Resume(cfg, stage, writeOk) ==
    LET stop == SetupStop(cfg, stage) IN
    /\ config' = cfg
    /\ IF stop # "save" THEN
            /\ pc' = stop
            /\ UNCHANGED <<envFile, nwrites, proc>>
       ELSE IF writeOk THEN
            /\ envFile' = envContent(cfg)
            /\ nwrites' = nwrites + 1
            /\ pc' = "q_menu"
            /\ UNCHANGED proc
       ELSE \* the write throws: main() rejects, .catch prints, .finally exits
            /\ pc' = "done"
            /\ proc' = "exited"
            /\ UNCHANGED <<envFile, nwrites>>

Init ==
    /\ config \in [Fields -> EnvValues]
    /\ pc = "start"
    /\ proc = "running"
    /\ listeners = <<>>
    /\ promises = <<>>
    /\ exchanges = <<>>
    /\ lastResponse = [attempt |-> 0, code |-> Null, status |-> 0]
    /\ nreq = 0
    /\ envFile = <<>>
    /\ nwrites = 0
    /\ op = Null
    /\ lastTokens = [threw |-> FALSE, refresh_token |-> Null]
    /\ retry = Null
    /\ apiFailed = FALSE
    /\ choice = Null
    /\ CollectorOff /\ PlaygroundOff

\* main() up to the first await
MainStart ==
    /\ proc = "running" /\ pc = "start"
    /\ \E writeOk \in BOOLEAN : Resume(config, 1, writeOk)
    /\ UNCHANGED <<listeners, promises, exchanges, lastResponse, nreq, op, lastTokens, retry, apiFailed, choice>>
    /\ UNCHANGED <<collector, playground>>

\* the operator answers the prompt for required field number i
AnswerRequired(i, answer, writeOk) ==
    /\ proc = "running" /\ pc = PromptOf(requiredFields[i])
    /\ Resume([config EXCEPT ![requiredFields[i]] = answer], i + 1, writeOk)
    /\ UNCHANGED <<listeners, promises, exchanges, lastResponse, nreq, op, lastTokens, retry, apiFailed, choice>>
    /\ UNCHANGED <<collector, playground>>

\* mutant: the promise lives outside the function and a retry reuses it
generateAuthUrl_SharedPromise ==
    /\ promises' = Append(promises, IF promises = <<>> THEN Null
                                     ELSE promises[Len(promises)])
    /\ pc' = "await_code"
    /\ IF PortInUse
       THEN /\ listeners' = Append(listeners,
                [state |-> "bind_failed", timers |-> 0, n200 |-> 0, n400 |-> 0])
            /\ proc' = "crashed"
       ELSE /\ listeners' = Append(listeners,
                [state |-> "listening", timers |-> 0, n200 |-> 0, n400 |-> 0])
            /\ UNCHANGED proc
    /\ UNCHANGED <<config, exchanges, envFile, nwrites>>

\* generateAuthUrl up to `await authCodePromise`: create the server and the
\* promise, register the handler, listen on the port.  When the port is
\* still bound the listen fails; the 'error' event has no handler and the
\* process dies of the uncaught error.
generateAuthUrl ==
    /\ promises' = Append(promises, Null)
    /\ pc' = "await_code"
    /\ IF PortInUse
       THEN /\ listeners' = Append(listeners,
                [state |-> "bind_failed", timers |-> 0, n200 |-> 0, n400 |-> 0])
            /\ proc' = "crashed"
       ELSE /\ listeners' = Append(listeners,
                [state |-> "listening", timers |-> 0, n200 |-> 0, n400 |-> 0])
            /\ UNCHANGED proc
    /\ UNCHANGED <<config, exchanges, envFile, nwrites>>

\* the operator answers "generate an authorization URL? (yes/no)"
AnswerGenerate(answer) ==
    /\ proc = "running" /\ pc = "q_generate"
    /\ IF IsYes(toLowerCase(answer))
       THEN generateAuthUrl
       ELSE /\ pc' = "q_manual_refresh"
            /\ UNCHANGED <<config, proc, listeners, promises, exchanges, envFile, nwrites>>
    /\ UNCHANGED <<lastResponse, nreq, op, lastTokens, retry, apiFailed, choice>>
    /\ UNCHANGED <<collector, playground>>

\* the operator enters the refresh token manually
AnswerManualRefresh(answer, writeOk) ==
    /\ proc = "running" /\ pc = "q_manual_refresh"
    /\ Resume([config EXCEPT !.refresh_token = answer], 5, writeOk)
    /\ UNCHANGED <<listeners, promises, exchanges, lastResponse, nreq, op, lastTokens, retry, apiFailed, choice>>
    /\ UNCHANGED <<collector, playground>>

\* ------------------------------------------------------ capture listener
\* mutant: an empty code parameter counts as a code
codePresent_NotNull(code) == code # Null

\* `if (code)` in the request handler
codePresent(code) == Truthy(code)

\* the status the handler answers with
responseStatus(code) == IF codePresent(code) THEN 200 ELSE 400

\* mutant: the latest resolution wins
resolveAuthCodePromise_LastWins(promise, code) == code

\* resolveAuthCodePromise(code): a promise keeps the first value it is
\* resolved with
resolveAuthCodePromise(promise, code) == IF promise = Null THEN code ELSE promise

\* mutant: the handler resolves the promise before looking at the code
handlerResolve_Always(promise, code) == resolveAuthCodePromise(promise, code)

\* what the handler does to the promise of its invocation
handlerResolve(promise, code) ==
    IF codePresent(code) THEN resolveAuthCodePromise(promise, code) ELSE promise

\* mutant: the shutdown is scheduled whatever the request carries
handlerListener_AlwaysSchedules(l, code) ==
    IF codePresent(code)
    THEN [l EXCEPT !.n200 = @ + 1, !.timers = @ + 1]
    ELSE [l EXCEPT !.n400 = @ + 1, !.timers = @ + 1]

\* what the handler does to its server: with a code it schedules the
\* shutdown (setTimeout), without it only answers
handlerListener(l, code) ==
    IF codePresent(code)
    THEN [l EXCEPT !.n200 = @ + 1, !.timers = @ + 1]
    ELSE [l EXCEPT !.n400 = @ + 1]

\* mutant: every resolution runs the continuation again
resumesCaller_EveryCode(promise, resolved) == resolved # Null

\* `await authCodePromise` resumes when the promise goes from pending to
\* resolved
resumesCaller(promise, resolved) == promise = Null /\ resolved # Null

\* an inbound request with parsed query q reaches the listener of attempt i.
\* With a code: answer 200, resolve the promise, schedule the shutdown; the
\* awaiting caller, if this resolves its promise, resumes in the same turn
\* and starts the token exchange.  Without: answer 400.
Request(i, q) ==
    LET code == searchParamsGet(q, "code")
        resolved == handlerResolve(promises[i], code)
    IN
    /\ proc = "running" /\ nreq < MaxRequests
    /\ i \in 1..Len(listeners) /\ Bound(i)
    /\ nreq' = nreq + 1
    /\ lastResponse' = [attempt |-> i, code |-> code, status |-> responseStatus(code)]
    /\ listeners' = [listeners EXCEPT ![i] = handlerListener(@, code)]
    /\ promises' = [promises EXCEPT ![i] = resolved]
    /\ IF resumesCaller(promises[i], resolved) /\ i = attempt
       THEN /\ pc' = "exchanging"
            /\ exchanges' = Append(exchanges, <<i, resolved>>)
       ELSE UNCHANGED <<pc, exchanges>>
    /\ UNCHANGED <<config, proc, envFile, nwrites, op, lastTokens, retry, apiFailed, choice>>
    /\ UNCHANGED <<collector, playground>>

\* mutant: the timer callback leaves the server listening
serverClose_Noop(l) == l

\* server.close()
serverClose(l) == [l EXCEPT !.state = IF @ = "listening" THEN "closed" ELSE @]

\* a shutdown timer of attempt i fires, 1000 ms after a code-bearing request
CloseTimer(i) ==
    /\ proc = "running"
    /\ i \in 1..Len(listeners) /\ listeners[i].timers > 0
    /\ listeners' = [listeners EXCEPT ![i] = [serverClose(@) EXCEPT !.timers = @ - 1]]
    /\ UNCHANGED <<config, pc, proc, promises, exchanges, lastResponse, nreq,
                   envFile, nwrites, op, lastTokens, retry, apiFailed, choice>>
    /\ UNCHANGED <<collector, playground>>

\* ---------------------------------------------------------- token exchange
\* mutant: the refresh token of the response is stored unconditionally
storeRefreshToken_Always(cfg, refresh_token) == [cfg EXCEPT !.refresh_token = refresh_token]

\* mutant: the refresh token of the response is dropped
storeRefreshToken_Never(cfg, refresh_token) == cfg

\* `if (tokens.refresh_token) config.refresh_token = tokens.refresh_token`
storeRefreshToken(cfg, refresh_token) ==
    IF Truthy(refresh_token) THEN [cfg EXCEPT !.refresh_token = refresh_token] ELSE cfg

\* oauth2Client.getToken returns tokens with the given refresh_token
GetTokenReturns(refresh_token, writeOk) ==
    /\ proc = "running" /\ pc = "exchanging"
    /\ lastTokens' = [threw |-> FALSE, refresh_token |-> refresh_token]
    /\ IF Truthy(refresh_token)
       THEN Resume(storeRefreshToken(config, refresh_token), 5, writeOk)
       ELSE /\ config' = storeRefreshToken(config, refresh_token)
            /\ pc' = "q_retry"
            /\ UNCHANGED <<envFile, nwrites, proc>>
    /\ UNCHANGED <<listeners, promises, exchanges, lastResponse, nreq, op,
                   retry, apiFailed, choice>>
    /\ UNCHANGED <<collector, playground>>

\* mutant: the error of getToken is not caught and ends main()
GetTokenThrows_Uncaught ==
    /\ proc = "running" /\ pc = "exchanging"
    /\ lastTokens' = [threw |-> TRUE, refresh_token |-> Null]
    /\ pc' = "done"
    /\ proc' = "exited"
    /\ UNCHANGED <<config, listeners, promises, exchanges, lastResponse,
                   nreq, envFile, nwrites, op, retry, apiFailed, choice>>
    /\ UNCHANGED <<collector, playground>>

\* oauth2Client.getToken throws
GetTokenThrows ==
    /\ proc = "running" /\ pc = "exchanging"
    /\ lastTokens' = [threw |-> TRUE, refresh_token |-> Null]
    /\ pc' = "q_retry_error"
    /\ UNCHANGED <<config, proc, listeners, promises, exchanges, lastResponse,
                   nreq, envFile, nwrites, op, retry, apiFailed, choice>>
    /\ UNCHANGED <<collector, playground>>

\* mutant: declining the retry starts the setup over
AnswerRetry_RestartsSetup(answer, writeOk) ==
    /\ proc = "running" /\ pc \in {"q_retry", "q_retry_error"}
    /\ retry' = toLowerCase(answer)
    /\ IF IsYes(toLowerCase(answer))
       THEN /\ attempt < MaxAttempts
            /\ generateAuthUrl
       ELSE /\ Resume(config, 1, writeOk)
            /\ UNCHANGED <<listeners, promises, exchanges>>
    /\ UNCHANGED <<lastResponse, nreq, op, lastTokens, apiFailed, choice>>
    /\ UNCHANGED <<collector, playground>>

\* the operator answers "Would you like to try again? (yes/no)"
AnswerRetry(answer, writeOk) ==
    /\ proc = "running" /\ pc \in {"q_retry", "q_retry_error"}
    /\ retry' = toLowerCase(answer)
    /\ IF IsYes(toLowerCase(answer))
       THEN /\ attempt < MaxAttempts
            /\ generateAuthUrl
       ELSE /\ Resume(config, 5, writeOk)
            /\ UNCHANGED <<listeners, promises, exchanges>>
    /\ UNCHANGED <<lastResponse, nreq, op, lastTokens, apiFailed, choice>>
    /\ UNCHANGED <<collector, playground>>

\* ------------------------------------------------------------ end of setup
AnswerCustomerId(answer, writeOk) ==
    /\ proc = "running" /\ pc = "q_customer_id"
    /\ Resume([config EXCEPT !.customer_id = answer], 6, writeOk)
    /\ UNCHANGED <<listeners, promises, exchanges, lastResponse, nreq, op, lastTokens, retry, apiFailed, choice>>
    /\ UNCHANGED <<collector, playground>>

\* "Do you want to specify a login customer ID? (yes/no)"
AnswerUseLogin(answer, writeOk) ==
    /\ proc = "running" /\ pc = "q_use_login"
    /\ IF IsYes(toLowerCase(answer))
       THEN /\ pc' = "q_login_id"
            /\ UNCHANGED <<config, envFile, nwrites, proc>>
       ELSE Resume(config, 7, writeOk)
    /\ UNCHANGED <<listeners, promises, exchanges, lastResponse, nreq, op, lastTokens, retry, apiFailed, choice>>
    /\ UNCHANGED <<collector, playground>>

AnswerLoginId(answer, writeOk) ==
    /\ proc = "running" /\ pc = "q_login_id"
    /\ Resume([config EXCEPT !.login_customer_id = answer], 7, writeOk)
    /\ UNCHANGED <<listeners, promises, exchanges, lastResponse, nreq, op, lastTokens, retry, apiFailed, choice>>
    /\ UNCHANGED <<collector, playground>>

\* ---------------------------------------------------------------- the menu
\* the API operations that use the Ads client or the stored credentials
ApiOps == {"listAccessibleCustomers", "query", "listConversionActions",
           "listConversionActionsBeforeUpdate", "update", "getAccessToken", "fetch"}

\* mutant: an input that is no option leaves the menu loop
MenuChoice_InvalidExits(answer) ==
    /\ proc = "running" /\ pc = "q_menu"
    /\ CASE answer = "1" -> pc' = "in_api" /\ op' = "listAccessibleCustomers" /\ UNCHANGED proc
         [] answer = "2" -> pc' = "q_gaql" /\ UNCHANGED <<op, proc>>
         [] answer = "3" -> pc' = "in_api" /\ op' = "listConversionActions" /\ UNCHANGED proc
         [] answer = "4" -> pc' = "in_api" /\ op' = "listConversionActionsBeforeUpdate"
                            /\ UNCHANGED proc
         [] answer = "5" -> pc' = "q_default_provider" /\ UNCHANGED <<op, proc>>
         [] OTHER        -> pc' = "done" /\ proc' = "exited" /\ UNCHANGED op
    /\ apiFailed' = FALSE
    /\ choice' = IF pc' = "q_menu" THEN Null ELSE answer
    /\ UNCHANGED <<config, listeners, promises, exchanges, lastResponse, nreq,
                   envFile, nwrites, lastTokens, retry>>
    /\ UNCHANGED <<collector, playground>>

\* the operator selects an option of the main menu
MenuChoice(answer) ==
    /\ proc = "running" /\ pc = "q_menu"
    /\ CASE answer = "1" -> pc' = "in_api" /\ op' = "listAccessibleCustomers" /\ UNCHANGED proc
         [] answer = "2" -> pc' = "q_gaql" /\ UNCHANGED <<op, proc>>
         [] answer = "3" -> pc' = "in_api" /\ op' = "listConversionActions" /\ UNCHANGED proc
         [] answer = "4" -> pc' = "in_api" /\ op' = "listConversionActionsBeforeUpdate"
                            /\ UNCHANGED proc
         [] answer = "5" -> pc' = "q_default_provider" /\ UNCHANGED <<op, proc>>
         [] answer = "6" -> pc' = "done" /\ proc' = "exited" /\ UNCHANGED op
         [] OTHER        -> pc' = "q_menu" /\ UNCHANGED <<op, proc>>
    /\ apiFailed' = FALSE
    /\ choice' = IF pc' = "q_menu" THEN Null ELSE answer
    /\ UNCHANGED <<config, listeners, promises, exchanges, lastResponse, nreq,
                   envFile, nwrites, lastTokens, retry>>
    /\ UNCHANGED <<collector, playground>>

\* the operator enters the GAQL query of option 2
AnswerGaql ==
    /\ proc = "running" /\ pc = "q_gaql"
    /\ pc' = "in_api" /\ op' = "query"
    /\ UNCHANGED <<config, proc, listeners, promises, exchanges, lastResponse,
                   nreq, envFile, nwrites, lastTokens, retry, apiFailed, choice>>
    /\ UNCHANGED <<collector, playground>>

\* the operator enters the conversion action id of option 4
AnswerConversionActionId(answer) ==
    /\ proc = "running" /\ pc = "q_conv_id"
    /\ IF Truthy(answer)
       THEN pc' = "in_api" /\ op' = "update"
       ELSE pc' = "q_menu" /\ UNCHANGED op
    /\ choice' = IF pc' = "q_menu" THEN Null ELSE choice
    /\ UNCHANGED <<config, proc, listeners, promises, exchanges, lastResponse,
                   nreq, envFile, nwrites, lastTokens, retry, apiFailed>>
    /\ UNCHANGED <<collector, playground>>

\* "Use default App Analytics Provider ID? (yes/no)" of option 5
AnswerDefaultProvider(answer) ==
    /\ proc = "running" /\ pc = "q_default_provider"
    /\ IF IsYes(toLowerCase(answer))
       THEN pc' = "in_api" /\ op' = "getAccessToken"
       ELSE pc' = "q_provider_id" /\ UNCHANGED op
    /\ UNCHANGED <<config, proc, listeners, promises, exchanges, lastResponse,
                   nreq, envFile, nwrites, lastTokens, retry, apiFailed, choice>>
    /\ UNCHANGED <<collector, playground>>

\* the operator enters the provider id of option 5 (empty: the default)
AnswerProviderId ==
    /\ proc = "running" /\ pc = "q_provider_id"
    /\ pc' = "in_api" /\ op' = "getAccessToken"
    /\ UNCHANGED <<config, proc, listeners, promises, exchanges, lastResponse,
                   nreq, envFile, nwrites, lastTokens, retry, apiFailed, choice>>
    /\ UNCHANGED <<collector, playground>>

\* mutant: an error of the operation is not caught and ends main()
ApiReturns_Uncaught(ok) ==
    /\ proc = "running" /\ pc = "in_api"
    /\ IF ok
       THEN /\ CASE op = "listConversionActionsBeforeUpdate" -> pc' = "q_conv_id" /\ op' = Null
                  [] op = "getAccessToken"                    -> pc' = "in_api" /\ op' = "fetch"
                  [] OTHER                                    -> pc' = "q_menu" /\ op' = Null
            /\ UNCHANGED proc
       ELSE pc' = "done" /\ proc' = "exited" /\ op' = Null
    /\ apiFailed' = ~ok
    /\ choice' = IF pc' = "q_menu" THEN Null ELSE choice
    /\ UNCHANGED <<config, listeners, promises, exchanges, lastResponse,
                   nreq, envFile, nwrites, lastTokens, retry>>
    /\ UNCHANGED <<collector, playground>>

\* the API operation in flight returns (ok) or throws; every operation
\* catches its error and returns to the menu loop
ApiReturns(ok) ==
    /\ proc = "running" /\ pc = "in_api"
    /\ CASE op = "listConversionActionsBeforeUpdate" -> pc' = "q_conv_id" /\ op' = Null
         [] op = "getAccessToken" /\ ok              -> pc' = "in_api" /\ op' = "fetch"
         [] OTHER                                    -> pc' = "q_menu" /\ op' = Null
    /\ apiFailed' = ~ok
    /\ choice' = IF pc' = "q_menu" THEN Null ELSE choice
    /\ UNCHANGED <<config, proc, listeners, promises, exchanges, lastResponse,
                   nreq, envFile, nwrites, lastTokens, retry>>
    /\ UNCHANGED <<collector, playground>>

\* --------------------------------------------------------- specifications
Next ==
    \/ MainStart
    \/ \E i \in 1..3, a \in Answers, w \in BOOLEAN : AnswerRequired(i, a, w)
    \/ \E a \in YesNoAnswers : AnswerGenerate(a)
    \/ \E a \in Answers, w \in BOOLEAN : AnswerManualRefresh(a, w)
    \/ \E i \in 1..MaxAttempts, q \in Queries : Request(i, q)
    \/ \E i \in 1..MaxAttempts : CloseTimer(i)
    \/ \E r \in RefreshTokens, w \in BOOLEAN : GetTokenReturns(r, w)
    \/ GetTokenThrows
    \/ \E a \in YesNoAnswers, w \in BOOLEAN : AnswerRetry(a, w)
    \/ \E a \in Answers, w \in BOOLEAN : AnswerCustomerId(a, w)
    \/ \E a \in YesNoAnswers, w \in BOOLEAN : AnswerUseLogin(a, w)
    \/ \E a \in Answers, w \in BOOLEAN : AnswerLoginId(a, w)
    \/ \E c \in MenuChoices : MenuChoice(c)
    \/ AnswerGaql
    \/ \E a \in Answers : AnswerConversionActionId(a)
    \/ \E a \in YesNoAnswers : AnswerDefaultProvider(a)
    \/ AnswerProviderId
    \/ \E ok \in BOOLEAN : ApiReturns(ok)

Spec == Init /\ [][Next]_vars

\* the event loop runs every timer whose delay has elapsed
FairSpec == Spec /\ \A i \in 1..MaxAttempts : WF_vars(CloseTimer(i))

TypeOK ==
    /\ config \in [Fields -> EnvValues \cup Answers \cup RefreshTokens]
    /\ proc \in {"running", "exited", "crashed"}
    /\ Len(listeners) = Len(promises)
    /\ Len(listeners) <= MaxAttempts
    /\ \A i \in 1..Len(listeners) :
          /\ listeners[i].state \in {"listening", "closed", "bind_failed"}
          /\ promises[i] = Null => i = attempt /\ pc = "await_code"
    /\ nreq \in 0..MaxRequests

\* ------------------------------------------------- the collector: the dates
\* `for (let i = 0; i < 90; i++)`
NumDays == 90

isLeapYear(y) == (y % 4 = 0 /\ y % 100 # 0) \/ y % 400 = 0

\* the days of month m of year y; months count from 0 as Date.getMonth does
DaysInMonth(y, m) ==
    CASE m = 1               -> IF isLeapYear(y) THEN 29 ELSE 28
      [] m \in {3, 5, 8, 10} -> 30
      [] OTHER               -> 31

\* the calendar day that is day number d of month m of year y, where d may
\* lie before the first or after the last day of that month
RECURSIVE MakeDay(_, _, _)
MakeDay(y, m, d) ==
    IF d < 1 THEN
        LET py == IF m = 0 THEN y - 1 ELSE y
            pm == IF m = 0 THEN 11 ELSE m - 1
        IN MakeDay(py, pm, d + DaysInMonth(py, pm))
    ELSE IF d > DaysInMonth(y, m) THEN
        MakeDay(IF m = 11 THEN y + 1 ELSE y, IF m = 11 THEN 0 ELSE m + 1,
                d - DaysInMonth(y, m))
    ELSE [year |-> y, month |-> m, day |-> d]

\* Date.prototype.setDate: the day of the month is set, the month is kept
\* when the value lies inside it
setDate(date, dayValue) == MakeDay(date.year, date.month, dayValue)

\* `new Date()` in iteration i: the day of the clock, which is the day t the
\* run started on until the clock passes midnight, before iteration k
newDate(t, i, k) == IF i >= k THEN MakeDay(t.year, t.month, t.day + 1) ELSE t

\* String(n).padStart(2, "0")
padStart(n) == IF Len(ToString(n)) < 2 THEN "0" \o ToString(n) ELSE ToString(n)

\* `${year}-${month}-${day}` of getFullYear(), getMonth() + 1, getDate()
formatDate(date) ==
    ToString(date.year) \o "-" \o padStart(date.month + 1) \o "-" \o padStart(date.day)

\* generateLast90DaysDates, started on day t, the clock passing midnight
\* before iteration k (k = NumDays: not during the call)
generateLast90DaysDates(t, k) ==
    [n \in 1..NumDays |->
        LET i == n - 1
            date == setDate(newDate(t, i, k), t.day - i)
        IN formatDate(date)]

\* iterations before which the clock may pass midnight
Rollovers == {0, 1, 45, NumDays - 1, NumDays}

\* the days a run may start on
Years  == {2024, 2025, 2100}
Todays == {t \in {[year |-> y, month |-> m, day |-> d] :
                      y \in Years, m \in 0..11, d \in {1, 2, 15, 28, 29, 30, 31}} :
              t.day <= DaysInMonth(t.year, t.month)}

\* the tool of Spec is not running
ToolOff ==
    /\ config = <<>> /\ pc = "off" /\ proc = "off" /\ listeners = <<>>
    /\ promises = <<>> /\ exchanges = <<>> /\ lastResponse = <<>> /\ nreq = 0
    /\ envFile = <<>> /\ nwrites = 0 /\ op = Null /\ lastTokens = <<>>
    /\ retry = Null /\ apiFailed = FALSE /\ choice = Null

\* a call of generateLast90DaysDates on its own
DatesInit ==
    /\ collector \in [today : Todays, rollover : {NumDays}, dates : {<<>>},
                      clicks : {<<>>}, failing : {{}}, fs : {<<>>},
                      cpc : {"dates"}, idx : {0}, totalResults : {0},
                      queries : {<<>>}, saves : {<<>>}]
    /\ ToolOff /\ PlaygroundOff

GenerateDates(k) ==
    /\ collector.cpc = "dates"
    /\ collector' = [collector EXCEPT
                        !.dates = generateLast90DaysDates(collector.today, k),
                        !.rollover = k,
                        !.cpc = "generated"]
    /\ UNCHANGED <<vars, playground>>

DatesNext == \E k \in Rollovers : GenerateDates(k)

DatesSpec == DatesInit /\ [][DatesNext]_allVars

\* -------------------------------------------------- the collector: main()
\* rows of click_view the account holds for the i-th date of the list
ClickData == {[i \in 1..NumDays |-> 0],
              [i \in 1..NumDays |-> 1],
              [i \in 1..NumDays |-> i % 3],
              [i \in 1..NumDays |-> IF i = NumDays THEN 2 ELSE 0]}

\* positions of the dates for which customer.query throws
Failures == {{}, {1}, {2, 3, NumDays}, 1..NumDays}

\* the days the collector is started on
CollectorTodays == {[year |-> 2025, month |-> 2, day |-> 1]}

\* `click_view_${date}.json`
fileName(date) == "click_view_" \o date \o ".json"

\* the output directory before the run: absent, or left by an earlier run
InitialFs == {[dir |-> FALSE, files |-> {}],
              [dir |-> TRUE, files |-> {fileName("2025-03-01"), fileName("2024-01-01")}]}

\* mutant: an error of the query is thrown on to the caller
runClickViewQuery_Rethrows(i) ==
    [threw |-> i \in collector.failing,
     rows  |-> IF i \in collector.failing THEN <<>>
               ELSE [j \in 1..collector.clicks[i] |-> j]]

\* runClickViewQuery for the i-th date: the rows the query returns, or the
\* empty list when it throws; the call itself never throws
runClickViewQuery(i) ==
    [threw |-> FALSE,
     rows  |-> IF i \in collector.failing THEN <<>>
               ELSE [j \in 1..collector.clicks[i] |-> j]]

\* mutant: the file is written for an empty list too
saveResultsToFile_AlwaysWrites(f, date, results) ==
    [dir |-> TRUE, files |-> f.files \cup {fileName(date)}]

\* saveResultsToFile when the file system calls succeed
saveResultsToFile(f, date, results) ==
    IF Len(results) = 0 THEN f
    ELSE [dir |-> TRUE, files |-> f.files \cup {fileName(date)}]

\* main() of the collector after the setup has returned
CollectorInit ==
    /\ collector \in [today : CollectorTodays, rollover : {NumDays}, dates : {<<>>},
                      clicks : ClickData, failing : Failures, fs : InitialFs,
                      cpc : {"q_list"}, idx : {0}, totalResults : {0},
                      queries : {<<>>}, saves : {<<>>}]
    /\ ToolOff /\ PlaygroundOff

\* the list of dates is generated and the loop calls runClickViewQuery
\* for its first date, up to `await customer.query`
StartCollection ==
    \E k \in {45, NumDays} :
        LET last90DaysDates == generateLast90DaysDates(collector.today, k) IN
        collector' = [collector EXCEPT
                         !.dates = last90DaysDates,
                         !.rollover = k,
                         !.totalResults = 0,
                         !.idx = 1,
                         !.queries = <<last90DaysDates[1]>>,
                         !.cpc = "query"]

\* the operator answers "list all accessible customer accounts? (yes/no)"
AnswerListCustomers(answer) ==
    /\ collector.cpc = "q_list"
    /\ IF IsYes(toLowerCase(answer))
       THEN collector' = [collector EXCEPT !.cpc = "listing"]
       ELSE StartCollection
    /\ UNCHANGED <<vars, playground>>

\* listAccessibleCustomers returns; it catches its own errors
ListingReturns ==
    /\ collector.cpc = "listing"
    /\ StartCollection
    /\ UNCHANGED <<vars, playground>>

\* customer.query for the date at idx returns or throws; the loop adds the
\* number of results to the total and calls saveResultsToFile, then waits
\* 100 ms.  fsOutcome: the file system calls succeed, or mkdirSync or
\* writeFileSync throws, which ends main()
QueryReturns(fsOutcome) ==
    LET call    == runClickViewQuery(collector.idx)
        results == call.rows
        date    == collector.dates[collector.idx]
    IN
    /\ collector.cpc = "query"
    /\ IF call.threw
       THEN collector' = [collector EXCEPT !.cpc = "failed"]
       ELSE IF Len(results) = 0 \/ fsOutcome = "ok"
       THEN collector' = [collector EXCEPT
                            !.totalResults = @ + Len(results),
                            !.saves = Append(@, date),
                            !.fs = saveResultsToFile(@, date, results),
                            !.cpc = "delay"]
       ELSE /\ fsOutcome = "mkdir_throws" => ~collector.fs.dir
            /\ collector' = [collector EXCEPT
                            !.totalResults = @ + Len(results),
                            !.saves = Append(@, date),
                            !.fs = IF fsOutcome = "mkdir_throws" THEN @
                                   ELSE [@ EXCEPT !.dir = TRUE],
                            !.cpc = "failed"]
    /\ UNCHANGED <<vars, playground>>

\* the 100 ms delay has elapsed: the loop goes on to the next date, or ends
\* and main() prints the total
DelayElapsed ==
    /\ collector.cpc = "delay"
    /\ IF collector.idx < Len(collector.dates)
       THEN collector' = [collector EXCEPT
                            !.idx = @ + 1,
                            !.queries = Append(@, collector.dates[collector.idx + 1]),
                            !.cpc = "query"]
       ELSE collector' = [collector EXCEPT !.cpc = "done"]
    /\ UNCHANGED <<vars, playground>>

CollectorNext ==
    \/ \E a \in YesNoAnswers : AnswerListCustomers(a)
    \/ ListingReturns
    \/ \E o \in {"ok", "mkdir_throws", "write_throws"} : QueryReturns(o)
    \/ DelayElapsed

CollectorSpec == CollectorInit /\ [][CollectorNext]_allVars

\* ------------------------------------- the archived playground: its menu
MaxDepth == 5      \* suspended invocations of showExampleQueriesMenu explored

PlaygroundChoices == {"1", "2", "3", "4", "5", "6", "7", "8", "9", ""}

\* the two places where showExampleQueriesMenu calls itself: the default
\* case of the switch, and the statement after the switch
CallInDefault == "default"
CallAfterSwitch == "afterSwitch"

\* the running invocation returns to its callers st: a caller suspended
\* after the switch returns as well; a caller suspended in the default case
\* goes on to the statement after the switch and calls the menu again;
\* with no caller left the menu has returned to main()
RECURSIVE returnFromMenu(_)
returnFromMenu(st) ==
    IF st = <<>> THEN [stack |-> <<>>, apc |-> "ended"]
    ELSE IF st[Len(st)] = CallAfterSwitch
         THEN returnFromMenu(SubSeq(st, 1, Len(st) - 1))
         ELSE [stack |-> Append(SubSeq(st, 1, Len(st) - 1), CallAfterSwitch),
               apc   |-> "prompt"]

\* main() of the playground calls showExampleQueriesMenu
PlaygroundInit ==
    /\ playground = [stack |-> <<>>, apc |-> "prompt", achoice |-> Null]
    /\ ToolOff /\ CollectorOff

\* the operator answers "Select an option (1-8)"
MenuInput(answer) ==
    /\ playground.apc = "prompt"
    /\ CASE answer \in {"1", "2", "3", "4", "5", "6"} ->
                playground' = [playground EXCEPT !.achoice = answer, !.apc = "running"]
         [] answer = "7" ->
                playground' = [playground EXCEPT !.achoice = answer, !.apc = "q_gaql"]
         [] answer = "8" ->
                playground' = [stack   |-> returnFromMenu(playground.stack).stack,
                               apc     |-> returnFromMenu(playground.stack).apc,
                               achoice |-> answer]
         [] OTHER ->
                /\ Len(playground.stack) < MaxDepth
                /\ playground' = [playground EXCEPT
                                     !.achoice = answer,
                                     !.stack = Append(@, CallInDefault)]
    /\ UNCHANGED <<vars, collector>>

\* the operator enters the query of option 7
AnswerCustomQuery ==
    /\ playground.apc = "q_gaql"
    /\ playground' = [playground EXCEPT !.apc = "running"]
    /\ UNCHANGED <<vars, collector>>

\* the query of the selected option returns or throws (every query catches
\* its error); after the switch the invocation calls the menu again
ExampleQueryReturns ==
    /\ playground.apc = "running"
    /\ Len(playground.stack) < MaxDepth
    /\ playground' = [playground EXCEPT
                         !.stack = Append(@, CallAfterSwitch),
                         !.apc = "prompt"]
    /\ UNCHANGED <<vars, collector>>

PlaygroundNext ==
    \/ \E a \in PlaygroundChoices : MenuInput(a)
    \/ AnswerCustomQuery
    \/ ExampleQueryReturns

PlaygroundSpec == PlaygroundInit /\ [][PlaygroundNext]_allVars

\* ------------------------------------------------------------- properties
\* a step that handles an inbound request
RequestStep == nreq' = nreq + 1

RetryPrompts == {"q_retry", "q_retry_error"}

\* positions of the main coroutine inside generateAuthUrl
InAuthStep == pc \in {"await_code", "exchanging"} \cup RetryPrompts

\* C1: a request whose query has no `code` parameter, or an empty one, is
\* answered 400, resolves no authorization promise, does not resume the
\* awaiting caller and starts no token exchange.
C1_NoCodeIs400 ==
    [][RequestStep /\ ~Truthy(lastResponse'.code)
         => /\ lastResponse'.status = 400
            /\ UNCHANGED <<promises, pc, exchanges>>]_vars

C1_Witness ==
    /\ lastResponse.status = 400
    /\ lastResponse.code = ""
    /\ promises[lastResponse.attempt] = Null
    /\ pc = "await_code"

C3_ClosedAfterCode ==
    /\ [](\A i \in 1..Len(listeners) :
             listeners[i].state = "closed" => listeners[i].n200 > 0)
    /\ \A i \in 1..MaxAttempts :
          (i <= Len(listeners) /\ listeners[i].n200 > 0)
             ~> \/ i <= Len(listeners) /\ listeners[i].state = "closed"
                \/ proc # "running"

C3_Witness ==
    /\ proc = "running"
    /\ Len(listeners) >= 1
    /\ listeners[1].state = "closed"
    /\ listeners[1].n200 > 0

\* C4: on a listener that has so far only received requests without a
\* code, whatever their number, a request with a non-empty code resolves
\* the pending authorization with that code and the token exchange starts
\* with it.
C4_CodeAfterFailures ==
    [][(/\ RequestStep /\ Truthy(lastResponse'.code)
        /\ listeners[lastResponse'.attempt].n200 = 0)
         => /\ promises'[lastResponse'.attempt] = lastResponse'.code
            /\ pc' = "exchanging"
            /\ exchanges' = Append(exchanges,
                                   <<lastResponse'.attempt, lastResponse'.code>>)]_vars

C4_Witness ==
    /\ Len(listeners) >= 1
    /\ listeners[attempt].n400 >= 1
    /\ listeners[attempt].n200 = 1
    /\ lastResponse.status = 200
    /\ pc = "exchanging"
    /\ exchanges[Len(exchanges)] = <<attempt, lastResponse.code>>

\* C5: when the token exchange returns without a refresh token, no field
\* of the credential bundle changes and the retry prompt is shown.
C5_NoRefreshTokenKeepsConfig ==
    [][(/\ pc = "exchanging" /\ pc' # "exchanging"
        /\ ~lastTokens'.threw /\ ~Truthy(lastTokens'.refresh_token))
         => (config' = config /\ pc' = "q_retry")]_vars

C5_Witness ==
    /\ pc = "q_retry"
    /\ ~lastTokens.threw
    /\ lastTokens.refresh_token = Null
    /\ config.refresh_token = ""
    /\ config.developer_token = "v"

\* C6: when the operator declines the retry prompt, the next prompt asks
\* for the refresh token to be entered manually.
C6_DeclineThenManualEntry ==
    [][(/\ pc \in RetryPrompts
        /\ pc' \notin RetryPrompts \cup {"await_code"})
         => (pc' = "q_manual_refresh")]_vars

\* C7: at most one listener is bound to, or failed to bind, the port, and
\* no bind of the port fails.
C7_SingleListener ==
    /\ Cardinality({i \in 1..Len(listeners) :
                       listeners[i].state \in {"listening", "bind_failed"}}) <= 1
    /\ \A i \in 1..Len(listeners) : listeners[i].state # "bind_failed"

\* C8: whenever an API call is in flight, the developer token, the client
\* id and the client secret are non-empty.
C8_RequiredBeforeApi ==
    pc = "in_api" =>
        /\ Truthy(config.developer_token)
        /\ Truthy(config.client_id)
        /\ Truthy(config.client_secret)

\* C9: whenever an authenticated call is in flight, the stored refresh
\* token is non-empty.
C9_RefreshTokenBeforeApi ==
    pc = "in_api" /\ op \in ApiOps => Truthy(config.refresh_token)

\* C10: once the authorization step has returned to its caller, every
\* capture listener is closed.
C10_ClosedOnReturn ==
    proc = "running" /\ ~InAuthStep =>
        \A i \in 1..Len(listeners) : listeners[i].state = "closed"

\* positions of the main coroutine inside the menu loop
MenuPositions == {"q_menu", "q_gaql", "in_api", "q_conv_id",
                  "q_default_provider", "q_provider_id"}

\* the getToken calls made by invocation i of generateAuthUrl
ExchangesOf(i) == {k \in 1..Len(exchanges) : exchanges[k][1] = i}

\* C11: generateAuthUrl is invoked again only by the step that answers a
\* retry prompt, and only when the answer read is "yes" or "y"; any other
\* answer to the retry prompt ends the authorization step.
C11_RetryOnlyOnYes ==
    [][/\ (Len(listeners') > Len(listeners) /\ Len(listeners) >= 1)
            => (pc \in RetryPrompts /\ retry' \in {"yes", "y"})
       /\ (pc \in RetryPrompts /\ pc' # pc /\ retry' \notin {"yes", "y"})
            => (Len(listeners') = Len(listeners) /\ ~InAuthStep')]_vars

C11_Witness ==
    /\ Len(listeners) = 2
    /\ retry = "y"
    /\ listeners[2].state = "listening"

\* C12: while the caller awaits the code the process stays alive, and the
\* wait ends only with an inbound request carrying a non-empty code.
C12_WaitNeverAborted ==
    /\ [](pc = "await_code" => proc = "running")
    /\ [][(pc = "await_code" /\ pc' # "await_code")
            => (RequestStep /\ Truthy(lastResponse'.code))]_vars

\* C13: every invocation of generateAuthUrl calls getToken at most once,
\* exactly once when its authorization is resolved, and with the code the
\* authorization was resolved with.
C13_OneExchangePerAttempt ==
    \A i \in 1..Len(listeners) :
        /\ Cardinality(ExchangesOf(i)) <= 1
        /\ promises[i] # Null <=> ExchangesOf(i) # {}
        /\ \A k \in ExchangesOf(i) : exchanges[k][2] = promises[i]

C13_Witness ==
    \E i \in 1..Len(listeners) :
        /\ listeners[i].n200 = 2
        /\ Cardinality(ExchangesOf(i)) = 1
        /\ lastResponse.attempt = i
        /\ lastResponse.code # promises[i]

\* C14: a listener answers at most one request with 200 in its lifetime
\* and schedules at most one shutdown.
C14_AtMostOneSuccess ==
    \A i \in 1..Len(listeners) :
        listeners[i].n200 <= 1 /\ listeners[i].timers <= 1

\* C15: when getToken throws, the process keeps running, the credential
\* bundle is unchanged and the retry prompt of the catch block is shown.
C15_ExchangeErrorOffersRetry ==
    [][(pc = "exchanging" /\ pc' # "exchanging" /\ lastTokens'.threw)
         => (/\ config' = config
             /\ proc' = "running"
             /\ pc' = "q_retry_error")]_vars

C15_Witness ==
    /\ pc = "q_retry_error"
    /\ lastTokens.threw
    /\ proc = "running"
    /\ config.refresh_token = ""

\* C16: when getToken returns a refresh token R, the stored refresh token
\* becomes R and the authorization step ends without a retry prompt; the
\* .env file written at the end of setup holds R as the refresh token.
C16_RefreshTokenStored ==
    /\ [][(/\ pc = "exchanging" /\ pc' # "exchanging"
           /\ ~lastTokens'.threw /\ Truthy(lastTokens'.refresh_token))
            => (/\ config'.refresh_token = lastTokens'.refresh_token
                /\ pc' \notin RetryPrompts \cup {"await_code", "exchanging"}
                /\ Len(listeners') = Len(listeners))]_vars
    /\ []((nwrites > 0 /\ ~lastTokens.threw /\ Truthy(lastTokens.refresh_token))
            => envFile["GOOGLE_ADS_REFRESH_TOKEN"] = lastTokens.refresh_token)

C16_Witness ==
    /\ nwrites = 1
    /\ lastTokens.refresh_token = "R1"
    /\ config.refresh_token = "R1"
    /\ envFile["GOOGLE_ADS_REFRESH_TOKEN"] = "R1"
    /\ pc = "q_menu"

\* C17: when an API operation of the menu throws, the process keeps
\* running and the menu is shown again (after the failed listing of option
\* 4 the conversion action id is asked first); inside the menu loop the
\* process ends only at the menu prompt, by the Exit option.
C17_ApiFailureBackToMenu ==
    [][/\ (pc = "in_api" /\ op' # op /\ apiFailed')
            => /\ proc' = "running"
               /\ \/ pc' = "q_menu"
                  \/ op = "listConversionActionsBeforeUpdate" /\ pc' = "q_conv_id"
       /\ (pc \in MenuPositions /\ proc' # "running") => pc = "q_menu"]_vars

C17_Witness ==
    /\ pc = "q_menu"
    /\ apiFailed
    /\ proc = "running"

\* C18: the process ends only when the operator selects Exit at the menu.
C18_OnlyExitEndsProcess ==
    [][(proc = "running" /\ proc' # "running") => pc = "q_menu"]_vars

\* C19: a request without a code leaves every listener as it was: the one
\* it reached stays bound and no shutdown is scheduled.
C19_NoCodeKeepsListener ==
    [][(RequestStep /\ ~Truthy(lastResponse'.code))
         => (/\ Len(listeners') = Len(listeners)
             /\ listeners'[lastResponse'.attempt].state = "listening"
             /\ \A j \in 1..Len(listeners) :
                   /\ listeners'[j].state = listeners[j].state
                   /\ listeners'[j].timers = listeners[j].timers)]_vars

C19_Witness ==
    /\ Len(listeners) = 1
    /\ listeners[1].n400 = 2
    /\ listeners[1].state = "listening"
    /\ listeners[1].timers = 0
    /\ pc = "await_code"

\* C20: every invocation of generateAuthUrl creates a new server and a new
\* unresolved promise and leaves the earlier ones alone, and getToken is
\* only ever called with the code of a request that reached the listener
\* of the invocation that is running.
C20_RetryIsFresh ==
    [][/\ Len(listeners') > Len(listeners)
            => /\ Len(listeners') = Len(listeners) + 1
               /\ promises'[Len(promises')] = Null
               /\ listeners'[Len(listeners')].n200 = 0
               /\ listeners'[Len(listeners')].n400 = 0
               /\ listeners'[Len(listeners')].timers = 0
               /\ pc' = "await_code"
               /\ \A j \in 1..Len(listeners) :
                     listeners'[j] = listeners[j] /\ promises'[j] = promises[j]
       /\ exchanges' # exchanges
            => /\ RequestStep
               /\ lastResponse'.attempt = Len(listeners)
               /\ exchanges' = Append(exchanges,
                                      <<Len(listeners), lastResponse'.code>>)]_vars

C20_Witness ==
    /\ Len(exchanges) = 2
    /\ exchanges[1][1] = 1
    /\ exchanges[2][1] = 2
    /\ exchanges[1][2] # exchanges[2][2]
    /\ promises[2] = exchanges[2][2]

\* the field a prompt of the setup asks for
FieldOf(p) ==
    CASE p \in {"q_developer_token"} -> "developer_token"
      [] p \in {"q_client_id"}       -> "client_id"
      [] p \in {"q_client_secret"}   -> "client_secret"
      [] p \in {"q_generate", "q_manual_refresh"} \cup RetryPrompts -> "refresh_token"
      [] p \in {"q_customer_id"}     -> "customer_id"
      [] p \in {"q_use_login", "q_login_id"} -> "login_customer_id"

SetupPrompts == {"q_developer_token", "q_client_id", "q_client_secret",
                 "q_generate", "q_manual_refresh", "q_customer_id",
                 "q_use_login", "q_login_id"} \cup RetryPrompts

\* C22: the setup shows a prompt for a field only while that field is
\* empty, and a field that is non-empty is never changed.
C22_PromptsOnlyForEmpty ==
    /\ [](pc \in SetupPrompts => ~Truthy(config[FieldOf(pc)]))
    /\ [][\A f \in Fields : Truthy(config[f]) => config'[f] = config[f]]_vars

C22_Witness ==
    /\ pc = "q_customer_id"
    /\ config.login_customer_id = "v"
    /\ config.refresh_token = "R1"
    /\ config.customer_id = ""

\* C23: once the setup has returned, no step changes the credential bundle;
\* the .env file is written at most once, by the step that ends the setup,
\* with the bundle as it then is, and it has been written exactly once
\* whenever the menu loop is running.
C23_ConfigFixedAfterSetup ==
    /\ [][/\ pc \in MenuPositions \cup {"done"} => config' = config
          /\ nwrites' # nwrites
               => /\ nwrites = 0 /\ nwrites' = 1
                  /\ pc \notin MenuPositions /\ pc' = "q_menu"
                  /\ envFile' = envContent(config')]_vars
    /\ [](pc \in MenuPositions => nwrites = 1)

C23_Witness ==
    /\ pc = "q_menu"
    /\ apiFailed
    /\ nwrites = 1
    /\ Len(listeners) = 2
    /\ retry = "no"
    /\ envFile = envContent(config)

ValidChoices == {"1", "2", "3", "4", "5", "6"}

\* C24: the menu loop is left only from the menu prompt, with the input
\* "6", and then the process ends; the step that reads an input at the
\* menu prompt starts an operation or one of its prompts only for an input
\* among "1".."5", and for every other input but "6" the program is at the
\* menu prompt again with no operation started.
C24_MenuEndsOnlyOnSix ==
    [][/\ (pc \in MenuPositions /\ pc' \notin MenuPositions)
            => (pc = "q_menu" /\ choice' = "6" /\ pc' = "done" /\ proc' = "exited")
       /\ (pc = "q_menu" /\ pc' # "q_menu")
            => /\ choice' \in ValidChoices
               /\ choice' = "6" <=> pc' = "done"
       /\ (pc = "q_menu" /\ pc' = "q_menu")
            => (op' = Null /\ choice' = Null /\ proc' = "running")
       /\ (pc \in MenuPositions /\ op' # op /\ op' # Null)
            => choice' \in {"1", "2", "3", "4", "5"}]_vars

C24_Witness ==
    /\ pc = "done"
    /\ choice = "6"
    /\ proc = "exited"
    /\ apiFailed = FALSE
    /\ nwrites = 1
    /\ Len(exchanges) = 1

\* the keys written and the keys read are the same, field by field
KeysAgree == \A f \in Fields : envKeyWritten(f) = envKeyRead(f)

Rank(p) ==
    CASE p = "start"             -> 0
      [] p = "q_developer_token" -> 1
      [] p = "q_client_id"       -> 2
      [] p = "q_client_secret"   -> 3
      [] p \in {"q_generate", "q_manual_refresh", "await_code", "exchanging"}
               \cup RetryPrompts -> 4
      [] p = "q_customer_id"     -> 5
      [] p \in {"q_use_login", "q_login_id"} -> 6
      [] p \in MenuPositions     -> 7
      [] p = "done"              -> 8

\* C27: main() never moves back in the order of its steps: generateAuthUrl
\* is only invoked from the authorization step, which comes after the three
\* required prompts and before the customer id prompts, and an API call is
\* in flight only after the setup has saved the configuration and returned.
C27_SetupOrder ==
    /\ [][/\ Rank(pc') >= Rank(pc)
          /\ Len(listeners') > Len(listeners)
               => (Rank(pc) = 4 /\ Rank(pc') = 4)]_vars
    /\ [](pc = "in_api" => (nwrites = 1 /\ envFile = envContent(config)))

C27_Witness ==
    /\ pc = "in_api"
    /\ op = "query"
    /\ Len(listeners) = 2
    /\ config.customer_id = "v"
    /\ config.developer_token = ""

\* the rows the queries of the first n dates returned, a failed query
\* counting as none
RECURSIVE ResultCount(_)
ResultCount(n) ==
    IF n = 0 THEN 0
    ELSE ResultCount(n - 1)
           + (IF n \in collector.failing THEN 0 ELSE collector.clicks[n])

\* C21: the collector queries the dates of the list in list order, one at
\* a time, the query of a date being issued only when the save of the date
\* before it has been called; a failed query adds nothing to the total and
\* is followed by the delay and the next date; the total is the number of
\* rows the queries so far returned, and when the loop has ended all 90
\* dates have been queried.
C21_CollectsAllDatesInOrder ==
    /\ [](collector.cpc \in {"query", "delay", "done", "failed"} =>
            /\ Len(collector.queries) <= Len(collector.dates)
            /\ \A j \in 1..Len(collector.queries) : collector.queries[j] = collector.dates[j]
            /\ \A j \in 1..Len(collector.saves) : collector.saves[j] = collector.dates[j]
            /\ collector.cpc = "query" => Len(collector.saves) = Len(collector.queries) - 1
            /\ collector.cpc \in {"delay", "done"} => Len(collector.saves) = Len(collector.queries)
            /\ collector.totalResults = ResultCount(Len(collector.saves))
            /\ collector.cpc = "done" =>
                  (Len(collector.queries) = 90 /\ collector.totalResults = ResultCount(90)))
    /\ [][/\ (collector.cpc = "query" /\ collector.idx \in collector.failing /\ collector'.cpc # collector.cpc)
               => (collector'.cpc = "delay"
                   /\ collector'.totalResults = collector.totalResults)
          /\ (collector.cpc = "delay" /\ collector'.cpc # collector.cpc /\ Len(collector.queries) < 90)
               => (collector'.cpc = "query"
                   /\ collector'.queries
                        = Append(collector.queries, collector.dates[Len(collector.queries) + 1]))]_allVars

C21_Witness ==
    /\ collector.cpc = "done"
    /\ collector.failing = {2, 3, NumDays}
    /\ Len(collector.queries) = 90
    /\ collector.clicks[1] = 1 /\ collector.clicks[2] = 1
    /\ collector.totalResults = 87
    /\ collector.rollover = NumDays

\* C25: the input "8" at the menu prompt of the playground ends the menu:
\* no prompt is shown after it.
C25_ExitEndsMenu ==
    [][(playground.apc = "prompt" /\ playground'.achoice = "8"
        /\ playground' # playground)
         => playground'.apc = "ended"]_allVars

\* C28: a call of saveResultsToFile with an empty list, the list of a
\* failed query included, changes nothing in the file system; a call with a
\* non-empty list creates or overwrites the file of the date passed in and
\* no other file; no other step of the collector touches the file system.
C28_SavesOnlyNonEmpty ==
    [][/\ collector'.saves # collector.saves =>
            LET date == collector'.saves[Len(collector'.saves)]
                n    == IF collector.idx \in collector.failing THEN 0 ELSE collector.clicks[collector.idx]
            IN /\ date = collector.dates[collector.idx]
               /\ n = 0 => collector'.fs = collector.fs
               /\ collector.fs.files \subseteq collector'.fs.files
               /\ collector'.fs.files \ collector.fs.files \subseteq {fileName(date)}
               /\ (n > 0 /\ collector'.cpc = "delay")
                    => (collector'.fs.dir /\ fileName(date) \in collector'.fs.files)
       /\ collector'.saves = collector.saves => collector'.fs = collector.fs]_allVars

C28_Witness ==
    /\ collector.cpc = "delay"
    /\ Len(collector.saves) = 2
    /\ 1 \in collector.failing
    /\ collector.fs.dir
    /\ collector.fs.files = {fileName(collector.dates[2])}

\* the day before a calendar day (months counted from 1)
PrevDay(y, m, d) ==
    IF d > 1 THEN <<y, m, d - 1>>
    ELSE IF m = 1 THEN <<y - 1, 12, 31>>
    ELSE IF m = 3 THEN <<y, 2, IF (y % 4 = 0 /\ y % 100 # 0) \/ y % 400 = 0 THEN 29 ELSE 28>>
    ELSE IF m \in {5, 7, 10, 12} THEN <<y, m - 1, 30>>
    ELSE <<y, m - 1, 31>>

TwoDigits == [n \in 1..31 |-> IF n < 10 THEN "0" \o ToString(n) ELSE ToString(n)]

\* the string YYYY-MM-DD of a calendar day
IsoDate(day) == ToString(day[1]) \o "-" \o TwoDigits[day[2]] \o "-" \o TwoDigits[day[3]]

\* the n days that end with day, latest first
RECURSIVE DaysBack(_, _)
DaysBack(day, n) ==
    IF n = 0 THEN <<>>
    ELSE <<IsoDate(day)>> \o DaysBack(PrevDay(day[1], day[2], day[3]), n - 1)

\* the day the call of generateLast90DaysDates started on
StartDay == <<collector.today.year, collector.today.month + 1, collector.today.day>>

\* C29: the list returned by generateLast90DaysDates has 90 entries, the
\* first is the day the call started on, each following entry is the day
\* before the entry it follows, and no entry occurs twice.
C29_Last90Days ==
    collector.cpc = "generated" =>
        /\ Len(collector.dates) = 90
        /\ collector.dates = DaysBack(StartDay, 90)
        /\ \A i, j \in 1..Len(collector.dates) :
              i # j => collector.dates[i] # collector.dates[j]

\* when the clock does not pass midnight during the call, the list is right
SameDayListIsRight ==
    (collector.cpc = "generated" /\ collector.rollover = NumDays) =>
        /\ collector.dates = DaysBack(StartDay, 90)
        /\ \A i, j \in 1..Len(collector.dates) :
              i # j => collector.dates[i] # collector.dates[j]
====
